---- MODULE Spec2Model ----
(***************************************************************************)
(* simple_slip: SLIP (RFC 1055) byte-stuffing codec.                       *)
(*                                                                         *)
(* encode, decode and decode_packets are pure functions of a byte buffer.  *)
(* They are modelled as operators that follow the Rust code statement by   *)
(* statement, with 0-based indices.  A Rust panic (slice index out of      *)
(* range, unwrap on Err) is a result of its own, tagged "Panic", next to   *)
(* Ok and Err.  idx - 1 at idx = 0 panics in both build profiles: as an    *)
(* overflow check in debug, as buffer[usize::MAX] in release.              *)
(*                                                                         *)
(* The state machine hands buffers to these functions the way a caller     *)
(* does: it encodes a payload, receives or composes a byte buffer, decodes *)
(* it in one call, or feeds it to decode_packets in two chunks, carrying   *)
(* the remainder from the first call to the second.                        *)
(***************************************************************************)
EXTENDS Integers, Sequences, FiniteSets

\* ------------------------------------------------------------------ bounds
MaxLen      == 5   \* longest buffer received from the line
MaxPayload  == 2   \* longest raw payload given to encode
MaxFrames   == 2   \* most frames in one composed transmission
MaxFramePayload == 1   \* longest payload of a frame in a composed transmission

\* --------------------------------------------------------------- constants
END     == 192   \* 0xC0
ESC     == 219   \* 0xDB
ESC_END == 220   \* 0xDC
ESC_ESC == 221   \* 0xDD

\* One ordinary byte next to the four reserved values.
Byte == {1, END, ESC, ESC_END, ESC_ESC}
\* Payload bytes of composed transmissions: ordinary, and the two escaped ones.
PayloadByte == {1, END, ESC}

RECURSIVE SeqsUpTo(_, _)
SeqsUpTo(S, n) ==
  IF n = 0 THEN {<<>>}
  ELSE LET shorter == SeqsUpTo(S, n - 1)
       IN  shorter \cup {Append(s, b) : s \in {t \in shorter : Len(t) = n - 1}, b \in S}

\* ----------------------------------------------------- slices and results
\* buffer[i] with a 0-based index
At(buffer, i) == buffer[i + 1]
\* &buffer[from..to], 0-based, to exclusive; the caller checks from <= to <= len
Slice(buffer, from, to) == SubSeq(buffer, from + 1, to)

Ok(v)      == [tag |-> "Ok",    val |-> v,    err |-> "none"]
Err(e)     == [tag |-> "Err",   val |-> <<>>, err |-> e]
Panic(why) == [tag |-> "Panic", val |-> <<>>, err |-> why]

\* ------------------------------------------------------------------ encoder
\* encode with the ESC arm of the match missing: ESC is copied through.
RECURSIVE encode_bytes_esc_unescaped(_)
encode_bytes_esc_unescaped(raw_buffer) ==
  IF raw_buffer = <<>> THEN <<>>
  ELSE LET byte == Head(raw_buffer)
           out  == IF byte = END THEN <<ESC, ESC_END>> ELSE <<byte>>
       IN  out \o encode_bytes_esc_unescaped(Tail(raw_buffer))

RECURSIVE encode_bytes(_)
encode_bytes(raw_buffer) ==
  IF raw_buffer = <<>> THEN <<>>
  ELSE LET byte == Head(raw_buffer)
           out  == IF byte = END THEN <<ESC, ESC_END>>
                   ELSE IF byte = ESC THEN <<ESC, ESC_ESC>>
                   ELSE <<byte>>
       IN  out \o encode_bytes(Tail(raw_buffer))

encode(raw_buffer) == Ok(<<END>> \o encode_bytes(raw_buffer) \o <<END>>)

\* ---------------------------------------------------------- delimiter scans
RECURSIVE find_delimiter_from(_, _)
find_delimiter_from(buffer, i) ==
  IF i >= Len(buffer) THEN [tag |-> "Err", idx |-> 0, err |-> "NoEndDelimiter"]
  ELSE IF At(buffer, i) = END
       THEN IF i + 1 >= Len(buffer)
            THEN [tag |-> "Panic", idx |-> 0, err |-> "find_delimiter: index len"]
            ELSE IF At(buffer, i + 1) = END
                 THEN [tag |-> "Ok", idx |-> i + 1, err |-> "none"]
                 ELSE [tag |-> "Ok", idx |-> i, err |-> "none"]
       ELSE find_delimiter_from(buffer, i + 1)

\* find_delimiter reporting the other error kind when the scan finds nothing.
find_delimiter_wrong_error(buffer) ==
  LET r == find_delimiter_from(buffer, 0)
  IN  IF r.tag = "Err" THEN [r EXCEPT !.err = "InvalidEncoding"] ELSE r

find_delimiter(buffer) == find_delimiter_from(buffer, 0)

RECURSIVE find_next_delimiter(_, _)
\* None is -1
find_next_delimiter(buffer, start_idx) ==
  IF start_idx >= Len(buffer) THEN -1
  ELSE IF At(buffer, start_idx) = END THEN start_idx
       ELSE find_next_delimiter(buffer, start_idx + 1)

RECURSIVE find_last_delimiter_from(_, _)
find_last_delimiter_from(buffer, i) ==
  IF i >= Len(buffer) THEN [tag |-> "Err", idx |-> 0, err |-> "NoEndDelimiter"]
  ELSE LET idx == (Len(buffer) - 1) - i
       IN  IF At(buffer, idx) = END
           THEN IF idx - 1 < 0
                THEN [tag |-> "Panic", idx |-> 0, err |-> "find_last_delimiter: index -1"]
                ELSE IF At(buffer, idx - 1) = END
                     THEN [tag |-> "Ok", idx |-> idx - 1, err |-> "none"]
                     ELSE [tag |-> "Ok", idx |-> idx, err |-> "none"]
           ELSE find_last_delimiter_from(buffer, i + 1)

find_last_delimiter(buffer) == find_last_delimiter_from(buffer, 0)

\* ----------------------------------------------------------------- size pass
RECURSIVE calc_from(_, _, _)
calc_from(encoded_buffer, idx, sum) ==
  IF idx >= Len(encoded_buffer) THEN sum
  ELSE LET byte == At(encoded_buffer, idx)
       IN  IF byte = ESC THEN calc_from(encoded_buffer, idx + 2, sum + 1)
           ELSE IF byte # END THEN calc_from(encoded_buffer, idx + 1, sum + 1)
           ELSE calc_from(encoded_buffer, idx + 1, sum)

calc_decode_buffer_size(encoded_buffer) == calc_from(encoded_buffer, 0, 0)

\* vec![0; n]
RECURSIVE Zeros(_)
Zeros(n) == IF n = 0 THEN <<>> ELSE <<0>> \o Zeros(n - 1)

\* ------------------------------------------------------------ transcode pass
\* unescape: the byte to write, or the failure
unescape(val, write_idx, write_buffer) ==
  IF val \notin {ESC_ESC, ESC_END} THEN Err("InvalidEncoding")
  ELSE IF write_idx >= Len(write_buffer) THEN Panic("unescape: write index out of bounds")
  ELSE Ok(IF val = ESC_ESC THEN ESC ELSE END)

\* The while loop of decode and of simple_decode.  The result carries the
\* output buffer and the final write index.
RECURSIVE transcode(_, _, _, _)
transcode(encoded_buffer, read_idx, write_idx, decoded_buffer) ==
  IF read_idx >= Len(encoded_buffer)
  THEN [tag |-> "Ok", val |-> decoded_buffer, err |-> "none", write_idx |-> write_idx]
  ELSE LET byte == At(encoded_buffer, read_idx)
       IN  IF byte = ESC
           THEN IF read_idx + 1 >= Len(encoded_buffer)
                THEN [tag |-> "Panic", val |-> <<>>, err |-> "read index out of bounds",
                      write_idx |-> write_idx]
                ELSE LET u == unescape(At(encoded_buffer, read_idx + 1), write_idx, decoded_buffer)
                     IN  IF u.tag = "Ok"
                         THEN transcode(encoded_buffer, read_idx + 2, write_idx + 1,
                                        [decoded_buffer EXCEPT ![write_idx + 1] = u.val])
                         ELSE [tag |-> u.tag, val |-> <<>>, err |-> u.err, write_idx |-> write_idx]
           ELSE IF byte = END
           THEN transcode(encoded_buffer, read_idx + 1, write_idx, decoded_buffer)
           ELSE IF write_idx >= Len(decoded_buffer)
                THEN [tag |-> "Panic", val |-> <<>>, err |-> "write index out of bounds",
                      write_idx |-> write_idx]
                ELSE transcode(encoded_buffer, read_idx + 1, write_idx + 1,
                               [decoded_buffer EXCEPT ![write_idx + 1] = byte])

\* ------------------------------------------------------ single-buffer decoder
\* size is -1 until the size pass has run.
Fail(tag, err) == [tag |-> tag, val |-> <<>>, err |-> err, write_idx |-> 0, size |-> -1]

decode(encoded_buffer) ==
  LET s == find_delimiter(encoded_buffer)
  IN  IF s.tag # "Ok" THEN Fail(s.tag, s.err)
      ELSE
      LET e == find_last_delimiter(encoded_buffer)
      IN  IF e.tag # "Ok" THEN Fail(e.tag, e.err)
          ELSE
          LET trim_start == s.idx
              trim_end   == e.idx
          IN  IF trim_start > trim_end THEN Fail("Panic", "slice index starts after end")
              ELSE
              LET decoded_buffer_size ==
                    calc_decode_buffer_size(Slice(encoded_buffer, trim_start, trim_end))
                  t == transcode(encoded_buffer, trim_start, 0, Zeros(decoded_buffer_size))
              IN  [tag |-> t.tag, val |-> t.val, err |-> t.err,
                   write_idx |-> t.write_idx, size |-> decoded_buffer_size]

\* ---------------------------------------------------------- streaming decoder
\* simple_decode: the transcode loop over one frame's slice; it unwraps the
\* result of unescape, so an invalid escape is a panic here.
simple_decode(encoded_buffer, decoded_buffer) ==
  LET t == transcode(encoded_buffer, 0, 0, decoded_buffer)
  IN  IF t.tag = "Err"
      THEN [tag |-> "Panic", val |-> <<>>, err |-> "unwrap on InvalidEncoding",
            write_idx |-> t.write_idx]
      ELSE t

StreamFail(err) == [tag |-> "Panic", packets |-> <<>>, remainder |-> <<>>, err |-> err]

\* The while loop of decode_packets.
RECURSIVE decode_packets_loop(_, _, _, _)
decode_packets_loop(encoded_buffer, idx, trim_start, parent_decoded_buffer) ==
  IF idx >= Len(encoded_buffer)
  THEN [tag |-> "Ok", packets |-> parent_decoded_buffer, remainder |-> <<>>, err |-> "none"]
  ELSE LET trim_end == find_next_delimiter(encoded_buffer, trim_start + 1)
       IN  IF trim_end = -1
           THEN [tag |-> "Ok", packets |-> parent_decoded_buffer,
                 remainder |-> Slice(encoded_buffer, trim_start, Len(encoded_buffer)),
                 err |-> "none"]
           ELSE LET frame == Slice(encoded_buffer, trim_start, trim_end)
                    decoded_buffer_size == calc_decode_buffer_size(frame)
                    d == simple_decode(frame, Zeros(decoded_buffer_size))
                IN  IF d.tag # "Ok" THEN StreamFail(d.err)
                    ELSE decode_packets_loop(encoded_buffer, trim_end + 1, trim_end + 1,
                                             Append(parent_decoded_buffer, d.val))

decode_packets(encoded_buffer) ==
  LET s == find_delimiter(encoded_buffer)
  IN  IF s.tag = "Err" THEN StreamFail("unwrap on NoEndDelimiter")
      ELSE IF s.tag = "Panic" THEN StreamFail(s.err)
      ELSE decode_packets_loop(encoded_buffer, 0, s.idx, <<>>)

\* -------------------------------------------------------------------- state
VARIABLES
  raw_buffer,      \* the payload last given to encode
  encoded_buffer,  \* the buffer in the caller's hands
  sent,            \* how a composed buffer was built: noise, frames' payloads, tail
  pending,         \* the part of the buffer not yet fed to decode_packets
  packets,         \* the packets decode_packets has returned so far
  remainder,       \* the remainder decode_packets returned last
  prev_ret,        \* the result of the decode call before this one
  call,            \* the last call made
  ret              \* what it returned: tag, payload, error, write index, size

vars == <<raw_buffer, encoded_buffer, sent, pending, packets, remainder,
          prev_ret, call, ret>>

NoRet == Fail("None", "none")
NotSent == [composed |-> FALSE, noise |-> <<>>, frames |-> <<>>, tail |-> <<>>]

Init ==
  /\ raw_buffer = <<>>
  /\ encoded_buffer = <<>>
  /\ sent = NotSent
  /\ pending = <<>>
  /\ packets = <<>>
  /\ remainder = <<>>
  /\ prev_ret = NoRet
  /\ call = "start"
  /\ ret = NoRet

\* Arbitrary bytes arrive from the line.
Receive ==
  /\ call = "start"
  /\ \E b \in SeqsUpTo(Byte, MaxLen) :
    /\ encoded_buffer' = b
    /\ call' = "receive"
    /\ UNCHANGED <<raw_buffer, sent, pending, packets, remainder, prev_ret, ret>>

\* encode(&raw_buffer); the caller keeps the framed bytes.
Encode ==
  /\ call = "start"
  /\ \E p \in SeqsUpTo(Byte, MaxPayload) :
    /\ raw_buffer' = p
    /\ LET r == encode(p)
       IN  /\ ret' = [tag |-> r.tag, val |-> r.val, err |-> r.err, write_idx |-> 0, size |-> -1]
           /\ encoded_buffer' = r.val
    /\ call' = "encode"
    /\ UNCHANGED <<sent, pending, packets, remainder, prev_ret>>

RECURSIVE Frames(_)
Frames(ps) ==
  IF ps = <<>> THEN <<>> ELSE encode(Head(ps)).val \o Frames(Tail(ps))

\* line noise before the first frame: bytes other than END
NoiseSet == {<<>>, <<1>>}
\* what follows the last frame: nothing, or an END and bytes other than END
TailSet  == {<<>>, <<END>>, <<END, 1>>, <<END, 1, ESC>>}

\* A sender's frames arrive back to back, after line noise and before an
\* unterminated tail.
Transmit ==
  /\ call = "start"
  /\ \E noise \in NoiseSet, ps \in SeqsUpTo(SeqsUpTo(PayloadByte, MaxFramePayload), MaxFrames),
        tl \in TailSet :
    /\ sent' = [composed |-> TRUE, noise |-> noise, frames |-> ps, tail |-> tl]
    /\ encoded_buffer' = noise \o Frames(ps) \o tl
    /\ call' = "transmit"
    /\ UNCHANGED <<raw_buffer, pending, packets, remainder, prev_ret, ret>>

\* decode(&encoded_buffer)
Decode ==
  /\ call \in {"receive", "encode"}
  /\ ret' = decode(encoded_buffer)
  /\ call' = IF call = "encode" THEN "round_trip" ELSE "decode"
  /\ UNCHANGED <<raw_buffer, encoded_buffer, sent, pending, packets, remainder, prev_ret>>

\* decode of the same buffer with one more END in front of it
DecodeDoubled ==
  /\ call = "decode"
  /\ encoded_buffer # <<>>
  /\ Head(encoded_buffer) = END
  /\ prev_ret' = ret
  /\ encoded_buffer' = <<END>> \o encoded_buffer
  /\ ret' = decode(<<END>> \o encoded_buffer)
  /\ call' = "decode_doubled"
  /\ UNCHANGED <<raw_buffer, sent, pending, packets, remainder>>

\* decode_packets(&encoded_buffer)
DecodePackets ==
  /\ call \in {"receive", "transmit"}
  /\ LET r == decode_packets(encoded_buffer)
     IN  /\ ret' = Fail(r.tag, r.err)
         /\ packets' = r.packets
         /\ remainder' = r.remainder
  /\ call' = "decode_packets"
  /\ UNCHANGED <<raw_buffer, encoded_buffer, sent, pending, prev_ret>>

\* The first k bytes of the buffer arrive and go to decode_packets.
FeedFirst ==
  /\ call = "transmit"
  /\ \E k \in 0 .. Len(encoded_buffer) :
    /\ LET r == decode_packets(Slice(encoded_buffer, 0, k))
       IN  /\ ret' = Fail(r.tag, r.err)
           /\ packets' = r.packets
           /\ remainder' = r.remainder
    /\ pending' = Slice(encoded_buffer, k, Len(encoded_buffer))
    /\ call' = "feed_first"
    /\ UNCHANGED <<raw_buffer, encoded_buffer, sent, prev_ret>>

\* The caller puts the remainder in front of the rest and calls again.
FeedRest ==
  /\ call = "feed_first"
  /\ ret.tag = "Ok"
  /\ LET r == decode_packets(remainder \o pending)
     IN  /\ ret' = Fail(r.tag, r.err)
         /\ packets' = packets \o r.packets
         /\ remainder' = r.remainder
  /\ pending' = <<>>
  /\ call' = "feed_rest"
  /\ UNCHANGED <<raw_buffer, encoded_buffer, sent, prev_ret>>

Next ==
  \/ Receive
  \/ Encode
  \/ Transmit
  \/ Decode
  \/ DecodeDoubled
  \/ DecodePackets
  \/ FeedFirst
  \/ FeedRest

Spec == Init /\ [][Next]_vars
\* ------------------------------------------------------------------- claims
HasEnd(buffer) == \E i \in 1 .. Len(buffer) : buffer[i] = END

\* every ESC byte is immediately followed by ESC_END or ESC_ESC
ValidEscapes(buffer) ==
  \A i \in 1 .. Len(buffer) :
    buffer[i] = ESC => /\ i + 1 <= Len(buffer)
                       /\ buffer[i + 1] \in {ESC_END, ESC_ESC}

\* an ESC at or after the first END that has no valid successor
BadEscapeInFrame(buffer) ==
  \E i \in 1 .. Len(buffer) :
    /\ buffer[i] = ESC
    /\ \E j \in 1 .. i : buffer[j] = END
    /\ (i + 1 > Len(buffer) \/ buffer[i + 1] \notin {ESC_END, ESC_ESC})

\* Where byte i (1-based) of a payload lands in its framed form, counted from
\* the byte lengths of the payload bytes before it.
EscLen(b) == IF b \in {END, ESC} THEN 2 ELSE 1
RECURSIVE FramedLen(_, _)
FramedLen(p, n) == IF n = 0 THEN 0 ELSE FramedLen(p, n - 1) + EscLen(p[n])

\* C1: decode(encode(P)) returns Ok(P) for every raw payload P, the empty one
\* included.
C1_RoundTrip ==
  call = "round_trip" => (ret.tag = "Ok" /\ ret.val = raw_buffer)

\* C2: feeding a buffer of concatenated frames to decode_packets in two chunks
\* split at any k, the remainder of the first call put in front of the second
\* chunk, yields the packets and the final remainder of the single call.
C2_SplitInvariance ==
  (sent.composed /\ sent.frames # <<>> /\ sent.noise = <<>> /\ sent.tail = <<>>) =>
    /\ call = "feed_first" => ret.tag = "Ok"
    /\ call = "feed_rest" =>
         LET whole == decode_packets(encoded_buffer)
         IN  /\ ret.tag = "Ok"
             /\ whole.tag = "Ok"
             /\ packets = whole.packets
             /\ remainder = whole.remainder

\* C3: decode_packets on a buffer with no END byte does not fail: it returns
\* no packet and the whole buffer as the remainder.
C3_NoDelimiterIsPartial ==
  (call = "decode_packets" /\ ~HasEnd(encoded_buffer)) =>
    (ret.tag = "Ok" /\ packets = <<>> /\ remainder = encoded_buffer)

\* C4: decode_packets(noise ++ encode(P1) ++ ... ++ encode(Pn) ++ T) returns
\* exactly [P1, ..., Pn] in order and T as the remainder.
C4_FramesInOrderAndTail ==
  (call = "decode_packets" /\ sent.composed) =>
    (ret.tag = "Ok" /\ packets = sent.frames /\ remainder = sent.tail)

\* C5: decode returns Err(InvalidEncoding) whenever an ESC of the frame is not
\* followed by ESC_END or ESC_ESC, also when the ESC is the last byte of the
\* buffer; it does not panic.
C5_BadEscapeIsInvalidEncoding ==
  (call = "decode" /\ BadEscapeInFrame(encoded_buffer)) =>
    (ret.tag = "Err" /\ ret.err = "InvalidEncoding")

\* C6: decode of a buffer with no END byte, the empty buffer included, returns
\* Err(NoEndDelimiter) and no payload.
C6_NoEndDelimiter ==
  (call = "decode" /\ ~HasEnd(encoded_buffer)) =>
    (ret.tag = "Err" /\ ret.err = "NoEndDelimiter" /\ ret.val = <<>>)

C6_Witness ==
  /\ call = "decode"
  /\ ~HasEnd(encoded_buffer)
  /\ Len(encoded_buffer) >= 3
  /\ \E i \in 1 .. Len(encoded_buffer) : encoded_buffer[i] = ESC
  /\ ret.err = "NoEndDelimiter"

C8_DoubledDelimiterSkip ==
  call = "decode_doubled" =>
    /\ ret.tag = prev_ret.tag
    /\ ret.val = prev_ret.val
    /\ ret.tag = "Err" => ret.err = prev_ret.err

\* C9: on a buffer with an END and only valid escapes, the transcode loop
\* writes exactly as many bytes as the size pass computed for start..end: no
\* write lands at or past the allocated length, and the final write index
\* equals it, also when bytes follow the frame's end delimiter.
C9_SizePassMatchesTranscode ==
  (HasEnd(encoded_buffer) /\ ValidEscapes(encoded_buffer)) =>
    /\ (call \in {"decode", "round_trip"} /\ ret.size # -1) =>
         (ret.tag = "Ok" /\ ret.write_idx = ret.size)
    /\ call = "decode_packets" =>
         ret.err \notin {"write index out of bounds", "unescape: write index out of bounds"}

\* The panics that are an index outside the buffer indexed.
IndexPanics ==
  {"find_delimiter: index len", "find_last_delimiter: index -1",
   "slice index starts after end", "read index out of bounds",
   "write index out of bounds", "unescape: write index out of bounds"}

\* C10: on every buffer, decode and decode_packets make every read of the
\* input and every write of the output at an index inside the buffer; the
\* delimiter scans never index position -1 or position len.
C10_IndicesInBounds ==
  call \in {"decode", "decode_packets"} => ret.err \notin IndexPanics
====
